---- MODULE Spec2Model ----
(***************************************************************************)
(* Model of the management command importar_matriculas_cero: a destructive *)
(* bulk import of Matricula records from a CSV file.  Command.handle is    *)
(* modelled statement group by statement group; parse_nota and the float   *)
(* conversion it relies on are modelled on character sequences.            *)
(***************************************************************************)
EXTENDS Integers, Sequences, FiniteSets

(***************************************************************************)
(* Bounds of the model.                                                    *)
(***************************************************************************)
\* Largest number of data rows of the CSV file.
MaxRows == 2
\* Number of successive invocations of the command on the same file.
MaxRuns == 2

(***************************************************************************)
(* Python values.  A value of type "str or None" is a record: None, or a   *)
(* string given as the sequence of its characters.  A value of type        *)
(* "float or None" is a record too; a finite float is kept as the          *)
(* normalised decimal mant * 10^exp it was read from.                      *)
(***************************************************************************)
None == [isNone |-> TRUE, s |-> <<>>]
Str(s) == [isNone |-> FALSE, s |-> s]

NoneF == [kind |-> "None", neg |-> FALSE, mant |-> 0, exp |-> 0]
Finite(neg, mant, exp) == [kind |-> "finite", neg |-> neg, mant |-> mant, exp |-> exp]
Inf(neg) == [kind |-> "inf", neg |-> neg, mant |-> 0, exp |-> 0]
NaN == [kind |-> "nan", neg |-> FALSE, mant |-> 0, exp |-> 0]
\* The exception float() raises on text that is no float literal.
ValueError == [kind |-> "ValueError", neg |-> FALSE, mant |-> 0, exp |-> 0]

\* Python truthiness of a str-or-None value: None and '' are falsy.
Truthy(v) == ~v.isNone /\ v.s # <<>>

(***************************************************************************)
(* str methods used by parse_nota.                                         *)
(***************************************************************************)
Whitespace == {" "}
Digits == {"0", "1", "2", "3", "4", "5", "6", "7", "8", "9"}

RECURSIVE lstrip(_)
lstrip(s) == IF s = <<>> THEN s
             ELSE IF Head(s) \in Whitespace THEN lstrip(Tail(s)) ELSE s

RECURSIVE rstrip(_)
rstrip(s) == IF s = <<>> THEN s
             ELSE IF s[Len(s)] \in Whitespace THEN rstrip(SubSeq(s, 1, Len(s) - 1)) ELSE s

\* str.strip()
strip(s) == rstrip(lstrip(s))

\* str.replace(old, new) for one-character old and new.
replace(s, old, new) == [i \in 1..Len(s) |-> IF s[i] = old THEN new ELSE s[i]]

DigitVal(c) ==
  CASE c = "0" -> 0 [] c = "1" -> 1 [] c = "2" -> 2 [] c = "3" -> 3 [] c = "4" -> 4
    [] c = "5" -> 5 [] c = "6" -> 6 [] c = "7" -> 7 [] c = "8" -> 8 [] c = "9" -> 9

IsDigits(s) == s # <<>> /\ \A i \in 1..Len(s) : s[i] \in Digits

RECURSIVE ToInt(_)
ToInt(s) == IF s = <<>> THEN 0
            ELSE 10 * ToInt(SubSeq(s, 1, Len(s) - 1)) + DigitVal(s[Len(s)])

\* Index of the first character of s that is in cs, or 0.
Find(s, cs) == IF \E i \in 1..Len(s) : s[i] \in cs
               THEN CHOOSE i \in 1..Len(s) : s[i] \in cs /\ \A j \in 1..(i - 1) : s[j] \notin cs
               ELSE 0

(***************************************************************************)
(* float(str): the conversion to an IEEE-754 double.                       *)
(***************************************************************************)
RECURSIVE Pow10(_)
Pow10(n) == IF n <= 0 THEN 1 ELSE 10 * Pow10(n - 1)

RECURSIVE NumDigits(_)
NumDigits(m) == IF m < 10 THEN 1 ELSE 1 + NumDigits(m \div 10)

RECURSIVE StripZeros(_, _)
\* <<mant, exp>> with the trailing zeros of mant moved into exp.
StripZeros(m, e) == IF m # 0 /\ m % 10 = 0 THEN StripZeros(m \div 10, e + 1) ELSE <<m, e>>

\* The four leading significant digits of m, as a number in 1000..9999.
Lead4(m) == LET nd == NumDigits(m)
            IN IF nd <= 4 THEN m * Pow10(4 - nd) ELSE m \div Pow10(nd - 4)

\* The double nearest to mant0 * 10^exp0: a value beyond the largest double
\* (1.7976...e308) is an infinity, one below half the smallest (2.47e-324) is 0.
\* Exact for mantissas of at most four significant digits.
RoundToDouble(neg, mant0, exp0) ==
  IF mant0 = 0 THEN Finite(neg, 0, 0)
  ELSE LET n == StripZeros(mant0, exp0)
           adj == n[2] + NumDigits(n[1]) - 1
       IN IF adj > 308 \/ (adj = 308 /\ Lead4(n[1]) >= 1798) THEN Inf(neg)
          ELSE IF adj < -324 \/ (adj = -324 /\ Lead4(n[1]) <= 2470) THEN Finite(neg, 0, 0)
          ELSE Finite(neg, n[1], n[2])

\* The decimal literal: digits with at most one point and at least one digit,
\* then an optional exponent (e or E, optional sign, digits).
ParseDecimal(neg, body) ==
  LET epos == Find(body, {"e", "E"})
      m == IF epos = 0 THEN body ELSE SubSeq(body, 1, epos - 1)
      x == IF epos = 0 THEN <<>> ELSE SubSeq(body, epos + 1, Len(body))
      xsigned == x # <<>> /\ x[1] \in {"+", "-"}
      xdigits == IF xsigned THEN Tail(x) ELSE x
      ppos == Find(m, {"."})
      ip == IF ppos = 0 THEN m ELSE SubSeq(m, 1, ppos - 1)
      fp == IF ppos = 0 THEN <<>> ELSE SubSeq(m, ppos + 1, Len(m))
      mantOk == IsDigits(ip \o fp)
      expOk == epos = 0 \/ IsDigits(xdigits)
      e == IF epos = 0 THEN 0
           ELSE IF xsigned /\ x[1] = "-" THEN 0 - ToInt(xdigits) ELSE ToInt(xdigits)
  IN IF mantOk /\ expOk THEN RoundToDouble(neg, ToInt(ip \o fp), e - Len(fp))
     ELSE ValueError

\* float(t) for a str t: surrounding whitespace is ignored, then an optional
\* sign and "inf", "infinity", "nan" or a decimal literal; anything else raises.
float(t) ==
  LET u == strip(t)
      signed == u # <<>> /\ u[1] \in {"+", "-"}
      neg == signed /\ u[1] = "-"
      body == IF signed THEN Tail(u) ELSE u
  IN IF body \in {<<"i", "n", "f">>, <<"i", "n", "f", "i", "n", "i", "t", "y">>} THEN Inf(neg)
     ELSE IF body = <<"n", "a", "n">> THEN NaN
     ELSE ParseDecimal(neg, body)

(***************************************************************************)
(* parse_nota(value)                                                       *)
(***************************************************************************)
\* parse_nota without its except clause: the ValueError of float() escapes.
parse_nota_NoExcept(value) ==
  IF value.isNone \/ strip(value.s) = <<>> THEN NoneF
  ELSE float(strip(replace(value.s, ",", ".")))

parse_nota(value) ==
  IF value.isNone \/ strip(value.s) = <<>> THEN NoneF
  ELSE LET r == float(strip(replace(value.s, ",", ".")))
       IN IF r.kind = "ValueError" THEN NoneF ELSE r

(***************************************************************************)
(* Inputs: the cells of a CSV file, its rows, the two directories and the  *)
(* Matricula collection found by the first run.                            *)
(***************************************************************************)
GradeCols == <<"EC1", "EP1", "EC2", "EP2", "EC3", "EP3">>

\* The contents a grade column can have, each with the kind of content it is.
GradeCells == <<
  [kind |-> "absent",  cell |-> None],
  [kind |-> "empty",   cell |-> Str(<<>>)],
  [kind |-> "blank",   cell |-> Str(<<" ", " ">>)],
  [kind |-> "comma",   cell |-> Str(<<"1", "4", ",", "5">>)],
  [kind |-> "period",  cell |-> Str(<<"1", "6", ".", "0">>)],
  [kind |-> "text",    cell |-> Str(<<"a", "b", "c">>)],
  [kind |-> "special", cell |-> Str(<<"n", "a", "n">>)],
  [kind |-> "special", cell |-> Str(<<"-", "i", "n", "f">>)],
  [kind |-> "special", cell |-> Str(<<"1", "e", "9", "9", "9">>)],
  [kind |-> "period",  cell |-> Str(<<" ", "7", ".", "2", "5", " ">>)],
  [kind |-> "text",    cell |-> Str(<<"1", ",", "2", ",", "3">>)],
  [kind |-> "special", cell |-> Str(<<"i", "n", "f">>)] >>

\* The cell of grade column number i in the rows of pattern k: the patterns
\* rotate the cells through the six columns.
GradeCell(k, i) == GradeCells[((k + i - 2) % Len(GradeCells)) + 1].cell

\* A row as csv.DictReader yields it: a column the line lacks is None.
Row(est, grp, k) ==
  [estudiante_id |-> est, grupo_curso_id |-> grp,
   EC1 |-> GradeCell(k, 1), EP1 |-> GradeCell(k, 2), EC2 |-> GradeCell(k, 3),
   EP2 |-> GradeCell(k, 4), EC3 |-> GradeCell(k, 5), EP3 |-> GradeCell(k, 6)]

Id101 == Str(<<"1", "0", "1">>)
Id102 == Str(<<"1", "0", "2">>)
Id999 == Str(<<"9", "9", "9">>)
IdBad == Str(<<"x", "7">>)
Grp5 == Str(<<"5">>)
Grp77 == Str(<<"7", "7">>)

RowPool == {
  Row(Id101, Grp5, 1), Row(Id101, Grp5, 7),
  Row(None, Grp5, 1), Row(Id101, Str(<<>>), 7),
  Row(Id999, Grp5, 1), Row(Id102, Grp77, 7),
  Row(IdBad, Grp5, 1), Row(Id101, IdBad, 7) }

RECURSIVE SeqsUpTo(_, _)
\* The sequences of at most n elements of S.
SeqsUpTo(S, n) ==
  IF n = 0 THEN {<<>>}
  ELSE LET shorter == SeqsUpTo(S, n - 1)
       IN shorter \cup {Append(q, x) : q \in {q \in shorter : Len(q) = n - 1}, x \in S}

\* The file at the given path: absent, or a header line and data rows.
Files == {[exists |-> FALSE, rows |-> <<>>]}
           \cup {[exists |-> TRUE, rows |-> rs] : rs \in SeqsUpTo(RowPool, MaxRows)}

\* The keys of the Estudiante and GrupoCurso tables.
Directories == {
  [estudiantes |-> {101, 102}, grupos |-> {5}],
  [estudiantes |-> {101}, grupos |-> {5, 77}] }

\* A stored Matricula; an instance not yet saved has pk 0.
Matricula(pk, estudiante, grupo_curso, estado, EC1, EP1, EC2, EP2, EC3, EP3) ==
  [pk |-> pk, estudiante |-> estudiante, grupo_curso |-> grupo_curso, estado |-> estado,
   EC1 |-> EC1, EP1 |-> EP1, EC2 |-> EC2, EP2 |-> EP2, EC3 |-> EC3, EP3 |-> EP3]

\* The Matricula table before the first run.
PriorCollections == {
  <<>>,
  << Matricula(1, 102, 5, TRUE, Finite(FALSE, 11, 0), NoneF, NoneF, NoneF, NoneF, NoneF),
     Matricula(2, 101, 5, FALSE, Finite(FALSE, 145, -1), Finite(FALSE, 8, 0), NoneF, NoneF,
               NoneF, NoneF) >> }

(***************************************************************************)
(* State.                                                                  *)
(***************************************************************************)
VARIABLES
  file,                  \* the file at options['csv_file']
  estudiantes, grupos,   \* keys of the Estudiante and GrupoCurso tables
  db,                    \* the Matricula table, in insertion order
  nextId,                \* next primary key of the Matricula table
  saved,                 \* the Matricula table when the transaction began
  pc,                    \* position of the command in handle
  runs,                  \* invocations finished
  before,                \* the Matricula table when the current invocation started
  conteo_borrado, matriculas_a_crear, registros_procesados,
  idx,                   \* number of the row the reader yields next
  calls,                 \* store and file operations of the current invocation
  error,                 \* origin of the exception caught at the outer except
  outcome, prevOutcome   \* how the last two invocations ended

vars == <<file, estudiantes, grupos, db, nextId, saved, pc, runs, before, conteo_borrado,
          matriculas_a_crear, registros_procesados, idx, calls, error, outcome, prevOutcome>>

inputs == <<file, estudiantes, grupos>>
locals == <<conteo_borrado, matriculas_a_crear, registros_procesados, idx>>

Init ==
  /\ file \in Files
  /\ \E d \in Directories : estudiantes = d.estudiantes /\ grupos = d.grupos
  /\ db \in PriorCollections
  /\ nextId = Len(db) + 1
  /\ saved = <<>>
  /\ pc = "idle"
  /\ runs = 0
  /\ before = db
  /\ conteo_borrado = 0
  /\ matriculas_a_crear = <<>>
  /\ registros_procesados = 0
  /\ idx = 0
  /\ calls = <<>>
  /\ error = "none"
  /\ outcome = "none"
  /\ prevOutcome = "none"

(***************************************************************************)
(* Lookups.  The key of a lookup is the text of the cell; the integer      *)
(* primary-key field converts it and raises ValueError on text that is no  *)
(* number.                                                                 *)
(***************************************************************************)
Get(table, key) ==
  IF key.isNone THEN "DoesNotExist"
  ELSE IF ~IsDigits(key.s) THEN "Exception"
  ELSE IF ToInt(key.s) \in table THEN "found"
  ELSE "DoesNotExist"

\* A lookup that never reports not-found.
EstudianteGet_AlwaysFound(key) ==
  IF ~key.isNone /\ IsDigits(key.s) THEN "found" ELSE Get(estudiantes, key)

\* Estudiante.objects.select_related('perfil').get(perfil_id=key)
EstudianteGet(key) == Get(estudiantes, key)

\* GrupoCurso.objects.get(id=key)
GrupoCursoGet(key) == Get(grupos, key)

\* The guard with the second test forgotten.
MissingIdentifier_OnlyEstudiante(row) == ~Truthy(row.estudiante_id)

\* not estudiante_id or not grupo_curso_id
MissingIdentifier(row) == ~Truthy(row.estudiante_id) \/ ~Truthy(row.grupo_curso_id)

\* The six parsed grades of a row.
Notas(row) == [c \in {GradeCols[i] : i \in 1..Len(GradeCols)} |-> parse_nota(row[c])]

\* Matricula(estudiante=..., grupo_curso=..., estado=True, EC1=parse_nota(...), ...)
NewMatricula(row) ==
  LET n == Notas(row)
  IN Matricula(0, ToInt(row.estudiante_id.s), ToInt(row.grupo_curso_id.s), TRUE,
               n["EC1"], n["EP1"], n["EC2"], n["EP2"], n["EC3"], n["EP3"])

\* An exception escapes the evaluation of the six parse_nota calls.
NotasRaise(row) == \E i \in 1..Len(GradeCols) : Notas(row)[GradeCols[i]].kind = "ValueError"

\* The row the reader yields next.
CurrentRow == file.rows[idx]
HasRow == pc = "loop" /\ idx <= Len(file.rows)

(***************************************************************************)
(* Command.handle                                                          *)
(***************************************************************************)
\* A new invocation: its local variables are not yet assigned.
Invoke ==
  /\ pc = "idle"
  /\ runs < MaxRuns
  /\ before' = db
  /\ calls' = <<>>
  /\ error' = "none"
  /\ conteo_borrado' = 0
  /\ matriculas_a_crear' = <<>>
  /\ registros_procesados' = 0
  /\ idx' = 0

\* The invocation ends with the given outcome.
Return(result) ==
  /\ pc' = "idle"
  /\ runs' = runs + 1
  /\ outcome' = result
  /\ prevOutcome' = outcome

\* handle with the os.path.exists test left out: the run goes on to the transaction.
StartMissingFile_NoCheck ==
  /\ Invoke
  /\ ~file.exists
  /\ pc' = "atomic"
  /\ UNCHANGED <<inputs, db, nextId, saved, runs, outcome, prevOutcome>>

\* if not os.path.exists(file_path): raise CommandError(...)
StartMissingFile ==
  /\ Invoke
  /\ ~file.exists
  /\ Return("CommandError")
  /\ UNCHANGED <<inputs, db, nextId, saved>>

\* The file exists: registros_procesados = 0 and the try block is entered.
StartRun ==
  /\ Invoke
  /\ file.exists
  /\ pc' = "atomic"
  /\ UNCHANGED <<inputs, db, nextId, saved, runs, outcome, prevOutcome>>

\* with transaction.atomic(): the store begins a transaction.
EnterAtomic ==
  /\ pc = "atomic"
  /\ saved' = db
  /\ calls' = Append(calls, "begin")
  /\ pc' = "delete"
  /\ UNCHANGED <<inputs, db, nextId, runs, before, locals, error, outcome, prevOutcome>>

\* A statement of the transactional block raises: control leaves the block.
Raise(origin) ==
  /\ error' = origin
  /\ pc' = "raise"

\* The delete left out: the rows of earlier runs stay.
DeleteAll_KeepsRows ==
  /\ pc = "delete"
  /\ conteo_borrado' = 0
  /\ matriculas_a_crear' = <<>>
  /\ calls' = Append(calls, "delete")
  /\ pc' = "open"
  /\ UNCHANGED <<inputs, db, nextId, saved, runs, before, registros_procesados, idx, error,
                 outcome, prevOutcome>>

\* A delete of the inactive rows alone, filter(estado=False).delete().
DeleteAll_OnlyInactive ==
  /\ pc = "delete"
  /\ db' = SelectSeq(db, LAMBDA m : m.estado)
  /\ conteo_borrado' = Len(db) - Len(db')
  /\ matriculas_a_crear' = <<>>
  /\ calls' = Append(calls, "delete")
  /\ pc' = "open"
  /\ UNCHANGED <<inputs, nextId, saved, runs, before, registros_procesados, idx, error,
                 outcome, prevOutcome>>

\* conteo_borrado, _ = Matricula.objects.all().delete(); matriculas_a_crear = []
DeleteAll ==
  /\ pc = "delete"
  /\ db' = <<>>
  /\ conteo_borrado' = Len(db)
  /\ matriculas_a_crear' = <<>>
  /\ calls' = Append(calls, "delete")
  /\ pc' = "open"
  /\ UNCHANGED <<inputs, nextId, saved, runs, before, registros_procesados, idx, error,
                 outcome, prevOutcome>>

\* The delete raises.
DeleteRaises ==
  /\ pc = "delete"
  /\ calls' = Append(calls, "delete")
  /\ Raise("delete")
  /\ UNCHANGED <<inputs, db, nextId, saved, runs, before, locals, outcome, prevOutcome>>

\* with open(file_path, 'r', encoding='utf-8') as f: reader = csv.DictReader(f)
OpenFile ==
  /\ pc = "open"
  /\ file.exists
  /\ calls' = Append(calls, "open")
  /\ idx' = 1
  /\ pc' = "loop"
  /\ UNCHANGED <<inputs, db, nextId, saved, runs, before, conteo_borrado, matriculas_a_crear,
                 registros_procesados, error, outcome, prevOutcome>>

\* open raises (the path is a directory, is not readable, has gone).
OpenRaises ==
  /\ pc = "open"
  /\ calls' = Append(calls, "open")
  /\ Raise("open")
  /\ UNCHANGED <<inputs, db, nextId, saved, runs, before, locals, outcome, prevOutcome>>

\* for row in reader: the reader raises on the next line (decoding, csv.Error).
ReadRaises ==
  /\ HasRow
  /\ Raise("read")
  /\ UNCHANGED <<inputs, db, nextId, saved, runs, before, locals, calls, outcome, prevOutcome>>

\* The row lacks an identifier: it is reported and the loop continues.
RowMissingId ==
  /\ HasRow
  /\ MissingIdentifier(CurrentRow)
  /\ idx' = idx + 1
  /\ UNCHANGED <<inputs, db, nextId, saved, pc, runs, before, conteo_borrado,
                 matriculas_a_crear, registros_procesados, calls, error, outcome, prevOutcome>>

\* Each row saved as soon as it is built, Matricula(...).save(), and queued too.
RowCreated_SavesEachRow ==
  /\ HasRow
  /\ ~MissingIdentifier(CurrentRow)
  /\ EstudianteGet(CurrentRow.estudiante_id) = "found"
  /\ GrupoCursoGet(CurrentRow.grupo_curso_id) = "found"
  /\ ~NotasRaise(CurrentRow)
  /\ calls' = calls \o <<"get_estudiante", "get_grupo_curso">>
  /\ matriculas_a_crear' = Append(matriculas_a_crear, NewMatricula(CurrentRow))
  /\ db' = Append(db, [NewMatricula(CurrentRow) EXCEPT !.pk = nextId])
  /\ nextId' = nextId + 1
  /\ registros_procesados' = registros_procesados + 1
  /\ idx' = idx + 1
  /\ UNCHANGED <<inputs, saved, pc, runs, before, conteo_borrado, error, outcome,
                 prevOutcome>>

\* Both lookups return: the Matricula is built and queued, the counter goes up.
RowCreated ==
  /\ HasRow
  /\ ~MissingIdentifier(CurrentRow)
  /\ EstudianteGet(CurrentRow.estudiante_id) = "found"
  /\ GrupoCursoGet(CurrentRow.grupo_curso_id) = "found"
  /\ ~NotasRaise(CurrentRow)
  /\ calls' = calls \o <<"get_estudiante", "get_grupo_curso">>
  /\ matriculas_a_crear' = Append(matriculas_a_crear, NewMatricula(CurrentRow))
  /\ registros_procesados' = registros_procesados + 1
  /\ idx' = idx + 1
  /\ UNCHANGED <<inputs, db, nextId, saved, pc, runs, before, conteo_borrado, error, outcome,
                 prevOutcome>>

\* except Estudiante.DoesNotExist: the second lookup is not made.
RowEstudianteDoesNotExist ==
  /\ HasRow
  /\ ~MissingIdentifier(CurrentRow)
  /\ EstudianteGet(CurrentRow.estudiante_id) = "DoesNotExist"
  /\ calls' = Append(calls, "get_estudiante")
  /\ idx' = idx + 1
  /\ UNCHANGED <<inputs, db, nextId, saved, pc, runs, before, conteo_borrado,
                 matriculas_a_crear, registros_procesados, error, outcome, prevOutcome>>

\* except GrupoCurso.DoesNotExist
RowGrupoCursoDoesNotExist ==
  /\ HasRow
  /\ ~MissingIdentifier(CurrentRow)
  /\ EstudianteGet(CurrentRow.estudiante_id) = "found"
  /\ GrupoCursoGet(CurrentRow.grupo_curso_id) = "DoesNotExist"
  /\ calls' = calls \o <<"get_estudiante", "get_grupo_curso">>
  /\ idx' = idx + 1
  /\ UNCHANGED <<inputs, db, nextId, saved, pc, runs, before, conteo_borrado,
                 matriculas_a_crear, registros_procesados, error, outcome, prevOutcome>>

\* Any other exception of the try block: the first lookup raises, or the
\* second, or the construction of the Matricula.
RowRaises ==
  /\ HasRow
  /\ ~MissingIdentifier(CurrentRow)
  /\ \/ /\ EstudianteGet(CurrentRow.estudiante_id) = "Exception"
        /\ calls' = Append(calls, "get_estudiante")
     \/ /\ EstudianteGet(CurrentRow.estudiante_id) = "found"
        /\ \/ GrupoCursoGet(CurrentRow.grupo_curso_id) = "Exception"
           \/ GrupoCursoGet(CurrentRow.grupo_curso_id) = "found" /\ NotasRaise(CurrentRow)
        /\ calls' = calls \o <<"get_estudiante", "get_grupo_curso">>

\* The row's exception is not caught: it leaves the transactional block.
RowException_Propagates ==
  /\ RowRaises
  /\ Raise("row")
  /\ UNCHANGED <<inputs, db, nextId, saved, runs, before, locals, outcome, prevOutcome>>

\* except Exception as e: the row is reported and the loop continues.
RowException ==
  /\ RowRaises
  /\ idx' = idx + 1
  /\ UNCHANGED <<inputs, db, nextId, saved, pc, runs, before, conteo_borrado,
                 matriculas_a_crear, registros_procesados, error, outcome, prevOutcome>>

\* The reader is exhausted: the file is closed.
EndOfFile ==
  /\ pc = "loop"
  /\ idx > Len(file.rows)
  /\ pc' = "bulk"
  /\ UNCHANGED <<inputs, db, nextId, saved, runs, before, locals, calls, error, outcome,
                 prevOutcome>>

\* The rows stored by one bulk_create: the queue, with fresh primary keys.
Inserted(queue) == [i \in 1..Len(queue) |-> [queue[i] EXCEPT !.pk = nextId + i - 1]]

\* if matriculas_a_crear: Matricula.objects.bulk_create(matriculas_a_crear)
BulkCreate ==
  /\ pc = "bulk"
  /\ matriculas_a_crear # <<>>
  /\ db' = db \o Inserted(matriculas_a_crear)
  /\ nextId' = nextId + Len(matriculas_a_crear)
  /\ calls' = Append(calls, "bulk_create")
  /\ pc' = "commit"
  /\ UNCHANGED <<inputs, saved, runs, before, locals, error, outcome, prevOutcome>>

\* bulk_create raises (constraint violation, connection or storage error).
BulkCreateRaises ==
  /\ pc = "bulk"
  /\ matriculas_a_crear # <<>>
  /\ calls' = Append(calls, "bulk_create")
  /\ Raise("bulk_create")
  /\ UNCHANGED <<inputs, db, nextId, saved, runs, before, locals, outcome, prevOutcome>>

\* The queue is empty: no insert is issued.
BulkSkipped ==
  /\ pc = "bulk"
  /\ matriculas_a_crear = <<>>
  /\ pc' = "commit"
  /\ UNCHANGED <<inputs, db, nextId, saved, runs, before, locals, calls, error, outcome,
                 prevOutcome>>

\* The atomic block exits normally: the transaction commits, the totals are printed.
Commit ==
  /\ pc = "commit"
  /\ calls' = Append(calls, "commit")
  /\ Return("success")
  /\ UNCHANGED <<inputs, db, nextId, saved, before, locals, error>>

\* The commit raises.
CommitRaises ==
  /\ pc = "commit"
  /\ calls' = Append(calls, "commit")
  /\ Raise("commit")
  /\ UNCHANGED <<inputs, db, nextId, saved, runs, before, locals, outcome, prevOutcome>>

\* A rollback that does not restore the deleted rows.
Rollback_KeepsChanges ==
  /\ pc = "raise"
  /\ calls' = Append(calls, "rollback")
  /\ Return("CommandError")
  /\ UNCHANGED <<inputs, db, nextId, saved, before, locals, error>>

\* The exception leaves the atomic block, which rolls the transaction back;
\* except Exception as e: raise CommandError(...)
Rollback ==
  /\ pc = "raise"
  /\ db' = saved
  /\ calls' = Append(calls, "rollback")
  /\ Return("CommandError")
  /\ UNCHANGED <<inputs, nextId, saved, before, locals, error>>

Next ==
  \/ StartMissingFile
  \/ StartRun
  \/ EnterAtomic
  \/ DeleteAll
  \/ DeleteRaises
  \/ OpenFile
  \/ OpenRaises
  \/ ReadRaises
  \/ RowMissingId
  \/ RowCreated
  \/ RowEstudianteDoesNotExist
  \/ RowGrupoCursoDoesNotExist
  \/ RowException
  \/ EndOfFile
  \/ BulkCreate
  \/ BulkCreateRaises
  \/ BulkSkipped
  \/ Commit
  \/ CommitRaises
  \/ Rollback

Spec == Init /\ [][Next]_vars

(***************************************************************************)
(* Vocabulary of the properties.                                           *)
(***************************************************************************)
\* The student/group/status/grade content of a collection, primary keys aside.
Content(d) == [i \in 1..Len(d) |-> [d[i] EXCEPT !.pk = 0]]
Pks(d) == {d[i].pk : i \in 1..Len(d)}

\* The identifier cell is missing (None) or empty.
Blank(v) == v = None \/ v = Str(<<>>)
BlankId(row) == Blank(row.estudiante_id) \/ Blank(row.grupo_curso_id)

\* The identifier denotes a key of the table.
Denotes(v, table) == ~Blank(v) /\ IsDigits(v.s) /\ ToInt(v.s) \in table

\* Both identifiers of the row are present and resolve to existing entities.
RowIsValid(row) == Denotes(row.estudiante_id, estudiantes) /\ Denotes(row.grupo_curso_id, grupos)

RECURSIVE ValidRows(_)
\* The numbers of the valid rows among the first n rows of the file, in order.
ValidRows(n) == IF n <= 0 THEN <<>>
                ELSE IF RowIsValid(file.rows[n]) THEN Append(ValidRows(n - 1), n)
                ELSE ValidRows(n - 1)

\* The records of the valid rows among the first n rows of the file.
Expected(n) == [k \in 1..Len(ValidRows(n)) |-> NewMatricula(file.rows[ValidRows(n)[k]])]

\* The kind of content of a grade cell.
KindOf(cell) == GradeCells[CHOOSE i \in 1..Len(GradeCells) : GradeCells[i].cell = cell].kind

\* The rows the loop has dealt with so far.
Done == IF idx = 0 THEN 0 ELSE idx - 1

\* The places of an operation in the log of the current invocation.
Places(op) == {i \in 1..Len(calls) : calls[i] = op}

\* The exceptions of the transactional block that are not a row's.
TransactionFaults == {"delete", "open", "read", "bulk_create", "commit"}

(***************************************************************************)
(* Properties.                                                             *)
(***************************************************************************)
\* C1: when a statement of the transactional block has raised, the run ends
\* with the Matricula table exactly as it was when the run started, the delete
\* undone, and with CommandError, never with success.
C1_AtomicOnFailure ==
  (pc = "idle" /\ error # "none") => (db = before /\ outcome = "CommandError")

C1_Witness ==
  /\ pc = "idle"
  /\ error = "bulk_create"
  /\ outcome = "CommandError"
  /\ Len(before) = 2
  /\ db = before
  /\ Places("delete") # {}

\* C2: after a run that ends in success the table holds exactly one record per
\* row that was not skipped (its student, its group, estado true, its normalised
\* grades), each under a primary key no earlier record had; it is empty when
\* every row was skipped or the file has no rows.
C2_FullReplacementOnSuccess ==
  (pc = "idle" /\ runs > 0 /\ outcome = "success") =>
    /\ Content(db) = Expected(Len(file.rows))
    /\ \A i \in 1..Len(db) : db[i].estado
    /\ Cardinality(Pks(db)) = Len(db)
    /\ Pks(db) \cap Pks(before) = {}
    /\ ((\A i \in 1..Len(file.rows) : ~RowIsValid(file.rows[i])) => db = <<>>)

C2_Witness ==
  /\ pc = "idle"
  /\ outcome = "success"
  /\ Len(before) = 2
  /\ Len(file.rows) = 2
  /\ Len(db) = 1
  /\ db[1].pk > 2

\* C3: once a run has ended in success, the next run with the same file and
\* the same directories leaves the table with the same student/group/grade
\* records as that run left.
C3_Idempotent ==
  (pc = "idle" /\ runs >= 2 /\ prevOutcome = "success") => Content(db) = Content(before)

C3_Witness ==
  /\ pc = "idle"
  /\ runs >= 2
  /\ prevOutcome = "success"
  /\ outcome = "success"
  /\ Len(db) = 2
  /\ Pks(db) \cap Pks(before) = {}

\* C4: with no file at the path the run neither begins a transaction nor
\* deletes, looks up or inserts; the table stays as it was and the run ends
\* with CommandError.
C4_MissingFile ==
  ~file.exists =>
    /\ pc = "idle"
    /\ calls = <<>>
    /\ db = before
    /\ matriculas_a_crear = <<>>
    /\ (runs > 0 => outcome = "CommandError")

C4_Witness ==
  /\ ~file.exists
  /\ runs > 0
  /\ outcome = "CommandError"
  /\ Len(db) = 2

\* C5: a step of the loop on a row whose estudiante_id or grupo_curso_id is
\* missing or empty queues no record, counts none, stores none and makes no
\* lookup.
C5_BlankIdentifierSkipsRow ==
  [][(HasRow /\ BlankId(CurrentRow)) =>
       /\ matriculas_a_crear' = matriculas_a_crear
       /\ registros_procesados' = registros_procesados
       /\ calls' = calls
       /\ db' = db]_vars

C5_Witness ==
  /\ pc = "loop"
  /\ idx = 3
  /\ Len(matriculas_a_crear) = 1
  /\ Blank(file.rows[2].grupo_curso_id)
  /\ Denotes(file.rows[2].estudiante_id, estudiantes)
  /\ Cardinality(Places("get_estudiante")) = 1

\* C6: the queued records are, in order, those of the rows dealt with whose two
\* identifiers denote an existing Estudiante and an existing GrupoCurso, so a
\* row with a lookup that reports not-found adds none; and the queue is as long
\* as registros_procesados counts.
C6_QueueReferencesResolve ==
  /\ Len(matriculas_a_crear) = registros_procesados
  /\ \A k \in 1..Len(matriculas_a_crear) :
       /\ matriculas_a_crear[k].estudiante \in estudiantes
       /\ matriculas_a_crear[k].grupo_curso \in grupos
  /\ [k \in 1..Len(matriculas_a_crear) |->
        <<matriculas_a_crear[k].estudiante, matriculas_a_crear[k].grupo_curso>>]
       = [k \in 1..Len(ValidRows(Done)) |->
            <<ToInt(file.rows[ValidRows(Done)[k]].estudiante_id.s),
              ToInt(file.rows[ValidRows(Done)[k]].grupo_curso_id.s)>>]

C6_Witness ==
  /\ pc = "loop"
  /\ idx = 3
  /\ registros_procesados = 1
  /\ file.rows[1].estudiante_id = Id999
  /\ RowIsValid(file.rows[2])

\* C7: no exception of a row leaves the transactional block; a run in which
\* nothing but rows failed has dealt with every row and ends in success with the
\* records of all valid rows stored.
C7_RowFailuresContained ==
  /\ error \in TransactionFaults \cup {"none"}
  /\ (pc = "raise" => error \in TransactionFaults)
  /\ (pc = "idle" /\ runs > 0 /\ file.exists /\ error = "none") =>
       /\ outcome = "success"
       /\ idx = Len(file.rows) + 1
       /\ Content(db) = Expected(Len(file.rows))

C7_Witness ==
  /\ pc = "idle"
  /\ outcome = "success"
  /\ Len(file.rows) = 2
  /\ file.rows[1].estudiante_id = IdBad
  /\ RowIsValid(file.rows[2])
  /\ Len(db) = 1
  /\ Cardinality(Places("get_estudiante")) = 2

\* C8: every row dealt with whose two identifiers are present and resolve has
\* exactly one record in the queue, whatever its six grade columns hold, and a
\* grade column holding text that is no number gives that record no grade.
C8_GradesNeverSkipRow ==
  /\ Len(matriculas_a_crear) = Len(ValidRows(Done))
  /\ \A k \in 1..Len(ValidRows(Done)) : \A i \in 1..Len(GradeCols) :
       KindOf(file.rows[ValidRows(Done)[k]][GradeCols[i]]) = "text"
         => k <= Len(matriculas_a_crear) /\ matriculas_a_crear[k][GradeCols[i]] = NoneF

C8_Witness ==
  /\ pc = "loop"
  /\ idx = 3
  /\ Len(matriculas_a_crear) = 2
  /\ \E i \in 1..Len(GradeCols) : KindOf(file.rows[1][GradeCols[i]]) = "text"
  /\ \E i \in 1..Len(GradeCols) : KindOf(file.rows[2][GradeCols[i]]) = "text"
  /\ file.rows[1] # file.rows[2]

\* C9: every grade of every queued or stored record is absent or a finite float.
C9_GradesFiniteOrAbsent ==
  \A d \in {matriculas_a_crear, db} : \A k \in 1..Len(d) : \A i \in 1..Len(GradeCols) :
    d[k][GradeCols[i]].kind \in {"None", "finite"}

\* C10: in a run the transaction begins first and the delete comes next,
\* before the file is opened and before any lookup; nothing is stored while the
\* rows are dealt with; at most one bulk_create is issued, after the last
\* lookup and the last row, with a queue that is not empty, and it stores the
\* whole queue.
C10_Ordering ==
  /\ \A i \in 1..Len(calls) :
       /\ (i = 1) <=> (calls[i] = "begin")
       /\ (i = 2) <=> (calls[i] = "delete")
       /\ calls[i] = "bulk_create" =>
            /\ \A j \in 1..Len(calls) : calls[j] = "bulk_create" => j = i
            /\ \A j \in 1..Len(calls) :
                 calls[j] \in {"open", "get_estudiante", "get_grupo_curso"} => j < i
            /\ idx = Len(file.rows) + 1
            /\ matriculas_a_crear # <<>>
  /\ pc \in {"open", "loop", "bulk"} => db = <<>>
  /\ pc = "commit" =>
       /\ Content(db) = matriculas_a_crear
       /\ (matriculas_a_crear # <<>>) <=> (Places("bulk_create") # {})

C10_Witness ==
  /\ pc = "commit"
  /\ Len(matriculas_a_crear) = 2
  /\ Len(db) = 2
  /\ Cardinality(Places("bulk_create")) = 1
  /\ Len(calls) = 8

====
